---- MODULE Spec2Model ----
(***************************************************************************)
(* A model of the BagResponse training timer.                              *)
(*                                                                         *)
(*   Spec       the session engine of src/src/app/page.tsx (component      *)
(*              Home): the React state, the 1-second interval, the         *)
(*              callout timeout kept in calloutRef and the 2-second        *)
(*              timeouts nobody keeps a handle of.  A call of the page's   *)
(*              speakPattern is recorded in ev.                            *)
(*   SpecPage   the loops those calls start (page.tsx 171-206) on the      *)
(*              page's one audio element.  A loop reads isPausedRef and    *)
(*              nothing else of the session, and the session reads nothing *)
(*              of the loops.                                              *)
(*   SpecAudio  the cue player of src/src/lib/audio.ts (hook useAudio).    *)
(*                                                                         *)
(* Time is counted in whole seconds.  A pending timer carries the seconds  *)
(* left until it is due; Advance lets one second pass and is possible      *)
(* only when no timer is due, so every due timer fires first.  What        *)
(* happens at one instant (a click, several due timers) is interleaved in  *)
(* every order.                                                            *)
(***************************************************************************)
EXTENDS Integers, Sequences, FiniteSets, TLC

(***************************************************************************)
(* Bounds of the model.                                                    *)
(***************************************************************************)
MaxRounds == 2
MaxRoundSeconds == 4
MaxRestSeconds == 2
MaxBaseDelay == 2
MaxDelayVariance == 1
MaxUntracked == 2
MaxSpeaks == 3
MaxGen == 2
MaxUnits == 2
MaxNewSets == 1
MaxNameLen == 1

(***************************************************************************)
(* Patterns.  null is the empty sequence; undefined (the element a random  *)
(* index takes out of an empty array) is UndefinedPattern.                 *)
(***************************************************************************)
NullPattern == << >>
UndefinedPattern == << 0 >>

\* DEFAULT_PATTERN_SETS[0], "basic-1"
Basic1Patterns == { <<1>>, <<2>>, <<1, 2>> }

\* the patterns of a set, by id: the built-in "basic-1", a user set holding
\* one pattern, and a set as createNewSet leaves it (patterns: [])
PatternsOf(id) ==
    CASE id = "basic-1" -> Basic1Patterns
      [] id = "custom-one" -> { <<1, 2>> }
      [] OTHER -> {}

PatternSetIds == { "basic-1", "custom-one", "custom-empty" }

PlaybackSpeeds == { 10, 15 }   \* tenths: 1.0x and 1.5x

Phases == { "setup", "round", "rest", "complete" }

VARIABLES
    \* React state of Home
    config, phase, currentRound, timeRemaining, currentPattern, isPaused,
    \* timers: seconds left, -1 when none is pending
    timerRef, calloutRef, untracked,
    \* the page's audio element and its speakPattern loops
    speaks, audioPlaying,
    \* observation: the last operation, the phases entered since start,
    \* whether the session was paused since start, the state at the last pause,
    \* the ticks that counted down in the phase so far
    ev, phaseLog, interrupted, pauseSnap, phaseTicks,
    \* the calls of playRoundStartBeeps and playRoundEndBeeps (useBeeps,
    \* lib/audio.ts 312-351) made since start: page.tsx makes none
    startSignals, endSignals,
    \* the signal player of lib/audio.ts (useBeeps): audioContextRef is set,
    \* isPlayingStartBeepsRef, isPlayingEndBeepsRef, the step each sequence
    \* is at (0 when it is not running), and the last call or step
    audioContext, isPlayingStartBeeps, isPlayingEndBeeps, startStep, endStep,
    signalEv,
    \* the pattern-set collection of Home: React state patternSets,
    \* editingSet (its id) and sharedSetPreview, the clock Date.now() that
    \* makes the ids of new sets, and the last operation on the collection
    patternSets, editingSet, sharedSetPreview, now, setOp,
    \* sharing: the token in React state shareUrl ("" is the empty sequence)
    \* and the last share or link operation
    shareUrl, shareEv,
    \* a run of generateRandomPatternSet: its locals setSize, i and patterns
    \* and where the run is
    generator,
    \* the cue player of lib/audio.ts (useAudio): patternGenerationRef, the
    \* calls of speakPattern in flight (the call that made the generation g
    \* is cueOps[g]), audioRef's element, activeAudioElementsRef, the hook's
    \* isPausedRef, and the last step taken
    patternGeneration, cueOps, mainAudio, activeAudio, cuePaused, cueEv

sessionVars == << config, phase, currentRound, timeRemaining, currentPattern,
                  isPaused >>
timerVars == << timerRef, calloutRef, untracked >>
pageAudioVars == << speaks, audioPlaying >>
obsVars == << ev, phaseLog, interrupted, pauseSnap, phaseTicks >>
playerVars == << patternGeneration, mainAudio, activeAudio, cuePaused >>
cueVars == << playerVars, cueOps, cueEv >>
beepVars == << audioContext, isPlayingStartBeeps, isPlayingEndBeeps, startStep,
               endStep >>
signalVars == << startSignals, endSignals, beepVars, signalEv >>
setsVars == << patternSets, editingSet, sharedSetPreview, now, setOp >>
\* what the session operations of the page leave alone, and what the cue
\* player leaves alone
shareVars == << shareUrl, shareEv >>
genVars == << generator >>
libVars == << signalVars, cueVars, setsVars, shareVars, genVars >>
pageVars == << sessionVars, timerVars, pageAudioVars, obsVars, signalVars,
               setsVars, shareVars, genVars >>
vars == << sessionVars, timerVars, pageAudioVars, obsVars, libVars >>

(***************************************************************************)
(* Pure helpers of the page.                                               *)
(***************************************************************************)
\* getCurrentPatternSet().patterns
CurrentPatterns == PatternsOf(config.setId)

\* config.minutesPerRound * 60
RoundSeconds == config.roundSeconds

\* the event record every action leaves in ev
Ev(op) == [ op |-> op, pat |-> NullPattern, prev |-> NullPattern,
            phase |-> phase, paused |-> isPaused, spoke |-> FALSE,
            rate |-> 0 ]

\* mutant of the draw: a delay that can fall one second short of baseDelay
CalloutDelaysShort == (config.baseDelay - 1) .. (config.baseDelay + config.delayVariance)

\* the delays scheduleCallout can draw:
\* Math.random() * (maxDelay - minDelay) + minDelay
CalloutDelays == config.baseDelay .. (config.baseDelay + config.delayVariance)

\* mutants of scheduleCallout: one that clears the timeout and arms none,
\* one without the return of line 222
ScheduleNothing(paused) == { -1 }
ScheduleIgnoresPause(paused) == CalloutDelays

\* scheduleCallout(): the values calloutRef can hold afterwards.  The pending
\* timeout is cleared; when paused nothing is armed.
ScheduleCallout(paused) == IF paused THEN { -1 } ELSE CalloutDelays

\* mutant of the resume effect: the arm that was pending is left as it is
ResumeKeepsArm(changed, paused, ph, pat, ref) == { ref }

\* the effect "Resume callouts when unpausing during a round", run after a
\* render in which one of its dependencies changed: the values calloutRef
\* can hold afterwards, given the value `ref` it held before
ResumeEffect(changed, paused, ph, pat, ref) ==
    IF changed /\ ~paused /\ ph = "round" /\ pat # NullPattern
    THEN ScheduleCallout(paused)
    ELSE { ref }

\* mutant of the timer effect: the interval is created in every phase
TimerEffectAlways(ph) == 1

\* the timer effect, run after a render in which phase or config changed:
\* the interval is cleared and, in round and rest, created anew
TimerEffect(ph) == IF ph \in { "round", "rest" } THEN 1 ELSE -1

(***************************************************************************)
(* speakPattern of the page (page.tsx 171-206): the loops in flight.       *)
(***************************************************************************)
\* whether a call of speakPattern(p) enters its loop: not when paused or
\* when the pattern is empty (172); speakPattern(undefined) fails at
\* pattern.length, which rejects the promise the async function returns
SpeakStarts(p, paused) == ~(p = UndefinedPattern \/ paused \/ Len(p) = 0)

\* playbackSpeed of the state the page is first rendered with (page.tsx 73),
\* in tenths
InitialPlaybackSpeed == 10

\* the playbackRate speakPattern gives every unit (189): config.playbackSpeed
\* of the render the callback was made in, which is the first render, as the
\* dependency list of the useCallback is empty (206)
SpeakRate(cfg) == InitialPlaybackSpeed

\* the event a callout leaves in ev: the pattern, the one before it, the
\* phase and pause state it happened in, whether speakPattern spoke, and the
\* playbackRate it gave the units (0 when it did not speak)
CalloutEv(p) == [ op |-> "callout", pat |-> p, prev |-> currentPattern,
                  phase |-> phase, paused |-> isPaused,
                  spoke |-> SpeakStarts(p, isPaused),
                  rate |-> IF SpeakStarts(p, isPaused) THEN SpeakRate(config)
                           ELSE 0 ]


\* Math.floor(Math.random() * patterns.length) into patterns: any element,
\* and undefined when the array is empty
RandomPick(S) == IF S = {} THEN { UndefinedPattern } ELSE S

\* scheduleCallout's timeout callback (page.tsx 235-239): the patterns other
\* than the previous one, or all of them when none is left
NextPatterns(prev) ==
    LET availablePatterns == { p \in CurrentPatterns : p # prev }
    IN  RandomPick(IF availablePatterns # {} THEN availablePatterns
                                             ELSE CurrentPatterns)

\* the first callout of a round (page.tsx 269 and 310-311)
FirstPatterns(prev) == RandomPick(CurrentPatterns)

\* mutants of the interval callback's tests: a tick that ignores the pause,
\* a phase that ends one second early, one round too many, a countdown that
\* skips a second or stands still, a phase that ends one second late
TickIgnoresPause == TRUE
PhaseDoneEarly(prev) == prev <= 2
PhaseDoneLate(prev) == prev <= 0
CountdownStuck(prev) == prev
CountdownSkips(prev) == prev - 2
MoreRoundsOffByOne == currentRound <= config.rounds

\* the interval callback's tests (page.tsx 289, 291, 295) and its
\* countdown step (321)
TickActive == ~isPaused
PhaseDone(prev) == prev <= 1
Countdown(prev) == prev - 1
MoreRounds == currentRound < config.rounds

\* the round counter's step at the end of a rest (page.tsx 308)
NextRoundSkips(r) == r + 2
NextRound(r) == r + 1

(***************************************************************************)
(* Init: the page as mounted, in the setup view, with the configuration    *)
(* that the mount effect merged from localStorage (page.tsx 135-143: any   *)
(* stored value is taken as it is).                                        *)
(***************************************************************************)
Configs ==
    [ rounds : 0 .. MaxRounds,
      roundSeconds : { MaxRoundSeconds },
      restSeconds : { MaxRestSeconds },
      baseDelay : 1 .. MaxBaseDelay,
      delayVariance : 0 .. MaxDelayVariance,
      playbackSpeed : { InitialPlaybackSpeed },
      setId : PatternSetIds ]

NoSnap == << >>

\* a step of the cue player: the generations whose continuation ran in it
\* and those of them that started audio or changed the player's state
CueEv(op, ran, acted) == [ op |-> op, ran |-> ran, acted |-> acted ]

\* useAudio as mounted (lib/audio.ts 7-18)
CueInit ==
    /\ patternGeneration = 0
    /\ cueOps = << >>
    /\ mainAudio = [ on |-> FALSE, loading |-> FALSE, gen |-> 0 ]
    /\ activeAudio = {}
    /\ cuePaused = FALSE
    /\ cueEv = CueEv("init", {}, {})

SessionInit ==
    /\ config \in Configs
    /\ phase = "setup"
    /\ currentRound = 1
    /\ timeRemaining = 0
    /\ currentPattern = NullPattern
    /\ isPaused = FALSE
    /\ timerRef = -1
    /\ calloutRef = -1
    /\ untracked = << >>
    /\ speaks = << >>
    /\ audioPlaying = FALSE
    /\ ev = Ev("init")
    /\ phaseLog = << >>
    /\ interrupted = FALSE
    /\ pauseSnap = NoSnap
    /\ phaseTicks = 0

\* a call or a step of the signal player: whether the call passed its guard
SignalEv(op, began) == [ op |-> op, began |-> began ]

\* useBeeps before its mount effect (lib/audio.ts 262-264)
BeepState ==
    /\ startSignals = 0
    /\ endSignals = 0
    /\ isPlayingStartBeeps = FALSE
    /\ isPlayingEndBeeps = FALSE
    /\ startStep = 0
    /\ endStep = 0
    /\ signalEv = SignalEv("init", FALSE)

\* useBeeps as mounted in a browser (267-272)
SignalInit ==
    /\ BeepState
    /\ audioContext = TRUE

\* a pattern set (page.tsx 9-14)
PatternSet(id, name, isDefault, patterns) ==
    [ id |-> id, name |-> name, isDefault |-> isDefault, patterns |-> patterns ]

\* DEFAULT_PATTERN_SETS (page.tsx 29-54)
DefaultPatternSets ==
    << PatternSet("basic-1", "Basic 1", TRUE, << <<1>>, <<2>>, <<1, 2>> >>),
       PatternSet("basic-2", "Basic 2", TRUE, << <<3>>, <<4>>, <<3, 4>> >>),
       PatternSet("basic-3", "Basic 3", TRUE,
                  << <<1, 2, 3, 4>>, <<1, 2>>, <<3, 4>> >>),
       PatternSet("advanced", "Advanced", TRUE,
                  << <<1, 1, 2>>, <<1, 2, 1, 2>>, <<1, 2, 3, 4>>, <<3, 4>> >>) >>

\* null of editingSet, and of the id of an operation that names no set
NoSetId == ""

\* an operation on the collection, the set it named and the pattern it was
\* given
PatternOp(op, id, pattern) == [ op |-> op, id |-> id, pattern |-> pattern ]
SetOp(op, id) == PatternOp(op, id, NullPattern)

\* the collection and its editor before the mount effect (page.tsx 62, 87-95)
SetsState ==
    /\ editingSet = NoSetId
    /\ now = 0
    /\ setOp = SetOp("init", NoSetId)

\* the page mounted with nothing stored and no import parameter
SetsInit ==
    /\ SetsState
    /\ patternSets = DefaultPatternSets
    /\ sharedSetPreview = << >>

\* a share or link operation: the set it was given or made, and whether it
\* threw
ShareEv(op, set, threw) == [ op |-> op, set |-> set, threw |-> threw ]

\* sharing before any operation (page.tsx 92-95)
ShareInit ==
    /\ shareUrl = << >>
    /\ shareEv = ShareEv("init", << >>, FALSE)

\* a run of generateRandomPatternSet (532-559): op is "idle" before the first
\* call, "call" after line 534, "loop" after an iteration, "return" after the
\* loop
Generator(op, setSize, i, patterns) ==
    [ op |-> op, setSize |-> setSize, i |-> i, patterns |-> patterns ]

GenInit == generator = Generator("idle", 0, 0, << >>)

Init ==
    SessionInit /\ SignalInit /\ CueInit /\ SetsInit /\ ShareInit /\ GenInit

(***************************************************************************)
(* The operations of the page.                                             *)
(***************************************************************************)
\* startTraining (page.tsx 259-276), with the effects of the render after it
StartTraining ==
    /\ phase = "setup"
    /\ Len(untracked) < MaxUntracked
    /\ currentRound' = 1
    /\ phase' = "round"
    /\ timeRemaining' = RoundSeconds
    /\ isPaused' = FALSE
    /\ untracked' = Append(untracked, 2)
    /\ timerRef' = TimerEffect("round")
    /\ calloutRef' \in ResumeEffect(TRUE, FALSE, "round", currentPattern, calloutRef)
    /\ ev' = Ev("start")
    /\ phaseLog' = << "round" >>
    /\ interrupted' = FALSE
    /\ pauseSnap' = NoSnap
    /\ phaseTicks' = 0
    /\ UNCHANGED << config, currentPattern, pageAudioVars, libVars >>

\* resetTraining (page.tsx 333-342): the STOP button of the training view
\* and the TRAIN AGAIN button of the complete view
ResetTraining ==
    /\ phase # "setup"
    /\ timerRef' = -1
    /\ calloutRef' = -1
    /\ phase' = "setup"
    /\ currentRound' = 1
    /\ timeRemaining' = 0
    /\ currentPattern' = NullPattern
    /\ isPaused' = FALSE
    /\ ev' = Ev("stop")
    /\ phaseLog' = << >>
    /\ interrupted' = FALSE
    /\ pauseSnap' = NoSnap
    /\ phaseTicks' = 0
    /\ UNCHANGED << config, untracked, pageAudioVars, libVars >>

\* the elements of sp at the indices in K, in order
Keep(sp, K) ==
    LET F[i \in 0 .. Len(sp)] ==
            IF i = 0 THEN << >>
            ELSE IF i \in K THEN Append(F[i - 1], sp[i]) ELSE F[i - 1]
    IN  F[Len(sp)]

Waiters(sp) == { k \in DOMAIN sp : sp[k].pc = "settle" }

\* a play() promise settled: every loop awaiting playPromiseRef (page.tsx
\* 179-181) goes on to pause the element and play its own unit (184-192);
\* each one's pause() rejects the play() of the one before it, whose loop
\* ends in the catch, so one of them is left with its play() pending
AfterSettle(sp) ==
    IF Waiters(sp) = {} THEN { sp }
    ELSE { Keep([ sp EXCEPT ![k].pc = "starting" ],
                (DOMAIN sp \ Waiters(sp)) \cup { k }) : k \in Waiters(sp) }

\* the effect "Pause/unpause audio when isPaused changes" (page.tsx 209-213):
\* audio.pause() silences the element and rejects a pending play()
PauseEffectSpeaks(paused) ==
    IF paused /\ \E k \in DOMAIN speaks : speaks[k].pc = "starting"
    THEN AfterSettle(SelectSeq(speaks, LAMBDA s : s.pc # "starting"))
    ELSE { speaks }

PauseEffectAudio(paused) == IF paused THEN FALSE ELSE audioPlaying

\* history: the loops of sp that were in flight at a pause are marked
Cut(paused, sp) ==
    IF paused THEN [ k \in DOMAIN sp |-> [ sp[k] EXCEPT !.cut = TRUE ] ] ELSE sp

\* togglePause (page.tsx 352-354), with the effects of the render after it.
\* The button is rendered in the training view only.
TogglePause ==
    /\ phase \in { "round", "rest" }
    /\ isPaused' = ~isPaused
    /\ speaks' \in { Cut(~isPaused, sp) : sp \in PauseEffectSpeaks(~isPaused) }
    /\ audioPlaying' = PauseEffectAudio(~isPaused)
    /\ calloutRef' \in ResumeEffect(TRUE, ~isPaused, phase, currentPattern, calloutRef)
    /\ ev' = Ev(IF isPaused THEN "resume" ELSE "pause")
    /\ interrupted' = TRUE
    /\ pauseSnap' = IF isPaused THEN pauseSnap
                    ELSE << timeRemaining, currentRound, phase >>
    /\ UNCHANGED << config, phase, currentRound, timeRemaining, currentPattern,
                    timerRef, untracked, phaseLog, phaseTicks, libVars >>


\* one more counting tick in the phase; the count stops at the sum of the
\* longest round and the longest rest, which no phase comes near
CountTick(n) == IF n < MaxRoundSeconds + MaxRestSeconds THEN n + 1 ELSE n

\* the interval callback (page.tsx 288-324) and the effects of the render
\* after it: a change of phase clears the interval and creates it anew
Tick ==
    /\ timerRef = 0
    /\ ev' = Ev("tick")
    /\ UNCHANGED << config, currentPattern, isPaused, pageAudioVars,
                    interrupted, pauseSnap, libVars >>
    /\ phaseTicks' = IF ~TickActive THEN phaseTicks
                     ELSE IF PhaseDone(timeRemaining) THEN 0
                     ELSE CountTick(phaseTicks)
    /\ IF ~TickActive
       THEN /\ timerRef' = 1
            /\ UNCHANGED << phase, currentRound, timeRemaining, calloutRef,
                            untracked, phaseLog >>
       ELSE IF ~PhaseDone(timeRemaining)
       THEN /\ timeRemaining' = Countdown(timeRemaining)
            /\ timerRef' = 1
            /\ UNCHANGED << phase, currentRound, calloutRef, untracked,
                            phaseLog >>
       ELSE IF phase = "round"
       THEN IF MoreRounds
            THEN \* end of round: rest
                 /\ phase' = "rest"
                 /\ calloutRef' = -1
                 /\ timeRemaining' = config.restSeconds
                 /\ timerRef' = TimerEffect("rest")
                 /\ phaseLog' = Append(phaseLog, "rest")
                 /\ UNCHANGED << currentRound, untracked >>
            ELSE \* end of the last round
                 /\ phase' = "complete"
                 /\ calloutRef' = -1
                 /\ timeRemaining' = 0
                 /\ timerRef' = TimerEffect("complete")
                 /\ phaseLog' = Append(phaseLog, "complete")
                 /\ UNCHANGED << currentRound, untracked >>
       ELSE \* end of rest: the next round, its first callout 2 s later
            /\ currentRound' = NextRound(currentRound)
            /\ phase' = "round"
            /\ untracked' = Append(untracked, 2)
            /\ timeRemaining' = RoundSeconds
            /\ timerRef' = TimerEffect("round")
            /\ calloutRef' \in ResumeEffect(TRUE, isPaused, "round",
                                            currentPattern, calloutRef)
            /\ phaseLog' = Append(phaseLog, "round")

\* a callout: setCurrentPattern(p), speakPattern(p), scheduleCallout(), and
\* the resume effect of the render after it when currentPattern changed
Callout(p) ==
    /\ currentPattern' = p
    /\ \E armed \in ScheduleCallout(isPaused) :
          calloutRef' \in ResumeEffect(p # currentPattern, isPaused, phase, p, armed)
    /\ ev' = CalloutEv(p)

\* the 2-second timeout of startTraining (page.tsx 268-275) and of the end
\* of rest (page.tsx 309-317)
FirstCallout ==
    /\ untracked # << >>
    /\ Head(untracked) = 0
    /\ untracked' = Tail(untracked)
    /\ \E p \in FirstPatterns(currentPattern) : Callout(p)
    /\ UNCHANGED << config, phase, currentRound, timeRemaining, isPaused,
                    timerRef, pageAudioVars, phaseLog, interrupted, pauseSnap,
                    phaseTicks,
                    libVars >>

\* the timeout armed by scheduleCallout (page.tsx 230-248)
CalloutFire ==
    /\ calloutRef = 0
    /\ UNCHANGED << config, phase, currentRound, timeRemaining, isPaused,
                    timerRef, untracked, pageAudioVars, phaseLog, interrupted,
                    pauseSnap, phaseTicks, libVars >>
    /\ IF isPaused
       THEN /\ calloutRef' = -1
            /\ ev' = Ev("calloutDropped")
            /\ UNCHANGED currentPattern
       ELSE \E p \in NextPatterns(currentPattern) : Callout(p)

\* updateConfig("playbackSpeed", v) (page.tsx 357-359 and 1222): the new
\* config object makes a new scheduleCallout, so the resume effect and the
\* timer effect both run again
SetPlaybackSpeed ==
    /\ phase # "complete"
    /\ \E v \in PlaybackSpeeds \ { config.playbackSpeed } :
          config' = [ config EXCEPT !.playbackSpeed = v ]
    /\ calloutRef' \in ResumeEffect(TRUE, isPaused, phase, currentPattern, calloutRef)
    /\ timerRef' = TimerEffect(phase)
    /\ ev' = Ev("speed")
    /\ UNCHANGED << phase, currentRound, timeRemaining, currentPattern, isPaused,
                    untracked, pageAudioVars, phaseLog, interrupted, pauseSnap,
                    phaseTicks, libVars >>


(***************************************************************************)
(* The steps of a speakPattern loop of the page (page.tsx 171-206).        *)
(***************************************************************************)
\* the loops and the element: what a step of a loop leaves
Page(sp, playing) == [ speaks |-> sp, audioPlaying |-> playing ]

\* loop i of sp at the top of its body: break when paused (176), await the
\* pending play() (179-181), else pause the element and play the unit
\* (184-192)
LoopIter(sp, i, paused, playing) ==
    IF paused THEN Page(Keep(sp, DOMAIN sp \ { i }), playing)
    ELSE IF \E k \in DOMAIN sp : sp[k].pc = "starting"
    THEN Page([ sp EXCEPT ![i].pc = "settle" ], playing)
    ELSE Page([ sp EXCEPT ![i].pc = "starting" ], FALSE)

\* speakPattern(p), up to its first await
SpeakCall(sp, p, paused, playing) ==
    IF SpeakStarts(p, paused)
    THEN LoopIter(Append(sp, [ left |-> Len(p), multi |-> Len(p) > 1,
                               pc |-> "top", cut |-> FALSE ]),
                  Len(sp) + 1, paused, playing)
    ELSE Page(sp, playing)

\* the unit left of loop i after its play() resolved: the 400 ms gap when
\* the pattern has several units (195-198), else the loop is over
AfterPlay(s) ==
    IF s.multi THEN << [ s EXCEPT !.pc = "gap" ] >> ELSE << >>

\* play() resolved: the unit sounds
PlayStarted(i) ==
    /\ speaks[i].pc = "starting"
    /\ LET others == SubSeq(speaks, 1, i - 1) \o AfterPlay(speaks[i])
                       \o SubSeq(speaks, i + 1, Len(speaks))
       IN  /\ speaks' \in AfterSettle(others)
           /\ audioPlaying' = (Waiters(others) = {})

\* play() rejected (autoplay policy, an asset that does not load): the catch
\* of line 200 ends the loop
PlayFailed(i) ==
    /\ speaks[i].pc = "starting"
    /\ speaks' \in AfterSettle(Keep(speaks, DOMAIN speaks \ { i }))
    /\ audioPlaying' = FALSE

\* the gap between two units elapsed (197): the next unit, or the end
GapElapsed(i) ==
    /\ speaks[i].pc = "gap"
    /\ LET after == IF speaks[i].left > 1
                    THEN LoopIter([ speaks EXCEPT ![i].left = speaks[i].left - 1 ],
                                  i, isPaused, audioPlaying)
                    ELSE Page(Keep(speaks, DOMAIN speaks \ { i }), audioPlaying)
       IN  /\ speaks' = after.speaks
           /\ audioPlaying' = after.audioPlaying

\* the sound of the element ran to its end
AudioEnded ==
    /\ audioPlaying
    /\ audioPlaying' = FALSE
    /\ UNCHANGED speaks

SpeakStep ==
    \/ \E i \in DOMAIN speaks : PlayStarted(i) \/ PlayFailed(i) \/ GapElapsed(i)
    \/ AudioEnded

(***************************************************************************)
(* One second passes: every pending timer is one second nearer.            *)
(***************************************************************************)
Due ==
    \/ timerRef = 0
    \/ calloutRef = 0
    \/ \E k \in DOMAIN untracked : untracked[k] = 0

Pending ==
    \/ timerRef > 0
    \/ calloutRef > 0
    \/ untracked # << >>

Less(n) == IF n > 0 THEN n - 1 ELSE n

Advance ==
    /\ ~Due
    /\ Pending
    /\ timerRef' = Less(timerRef)
    /\ calloutRef' = Less(calloutRef)
    /\ untracked' = [ k \in DOMAIN untracked |-> Less(untracked[k]) ]
    /\ ev' = Ev("second")
    /\ pauseSnap' = NoSnap
    /\ UNCHANGED << sessionVars, pageAudioVars, phaseLog, interrupted, phaseTicks,
                    libVars >>

SessionNext ==
    \/ StartTraining
    \/ ResetTraining
    \/ TogglePause
    \/ SetPlaybackSpeed
    \/ Tick
    \/ FirstCallout
    \/ CalloutFire
    \/ Advance

Spec == Init /\ [][SessionNext]_vars

\* SpecLive: the session engine with the timers of the browser: a second
\* that can pass does pass, and a callback that is due is run.  The set in
\* use is the one of a single pattern: which patterns are called out has no
\* part in how a session comes to its end.
LiveInit == Init /\ config.setId = "custom-one"

SpecLive ==
    /\ LiveInit
    /\ [][SessionNext]_vars
    /\ WF_vars(Advance)
    /\ WF_vars(Tick)
    /\ WF_vars(FirstCallout)
    /\ WF_vars(CalloutFire)

TypeOK ==
    /\ phase \in Phases
    /\ timerRef \in -1 .. 1
    /\ calloutRef \in -1 .. (MaxBaseDelay + MaxDelayVariance)
    /\ speaks = << >>


(***************************************************************************)
(* SpecPage: the speakPattern loops of the page.  The session is started   *)
(* and may be paused and resumed; a callout calls speakPattern at any      *)
(* moment, which is what the timers of Spec amount to for the loops: a     *)
(* loop of n units lasts n plays and n gaps of 400 ms, the callouts of     *)
(* Spec come 1 second apart and more, and two 2-second timeouts can be due *)
(* at the same instant.                                                    *)
(***************************************************************************)
TrainingConfig ==
    [ rounds |-> MaxRounds, roundSeconds |-> MaxRoundSeconds,
      restSeconds |-> MaxRestSeconds, baseDelay |-> 1, delayVariance |-> 0,
      playbackSpeed |-> 10, setId |-> "basic-1" ]

PageInit == Init /\ config = TrainingConfig

\* a callout's call of speakPattern (page.tsx 272, 314, 243)
CalloutSpeak(p) ==
    /\ phase # "setup"
    /\ Len(speaks) < MaxSpeaks
    /\ speaks' = SpeakCall(speaks, p, isPaused, audioPlaying).speaks
    /\ audioPlaying' = SpeakCall(speaks, p, isPaused, audioPlaying).audioPlaying
    /\ UNCHANGED << sessionVars, timerVars, obsVars, libVars >>

PageStep ==
    /\ SpeakStep
    /\ UNCHANGED << sessionVars, timerVars, obsVars, libVars >>

PageNext ==
    \/ StartTraining
    \/ TogglePause
    \/ \E p \in CurrentPatterns : CalloutSpeak(p)
    \/ PageStep

SpecPage == PageInit /\ [][PageNext]_vars

(***************************************************************************)
(* SpecAudio: the cue player, hook useAudio of src/src/lib/audio.ts.       *)
(*                                                                         *)
(* A call of speakPattern runs up to its first await inside Speak; every   *)
(* later continuation of it is a step of its own, started by a timer, by   *)
(* an event of an audio element or by the settling of a play() promise.    *)
(* A sequential call is at pc "load" (130-156), "play" (162-163), "wait"   *)
(* (172) or "ended" (174-180); a simultaneous call keeps one state per     *)
(* unit: "timer" (75-101), "play" (90), "sounding" (92-96), "done"         *)
(* (resolved), "cleared" (its timeout cleared, 39) or "stuck" (its element *)
(* stopped while sounding, 34-35: ended never comes).                      *)
(***************************************************************************)
Overlaps == { 0, 200, 1000 }

\* mutant of the generation test: a continuation that never sees itself
\* superseded
NeverSuperseded(g) == FALSE

\* patternGenerationRef.current !== myGeneration (77, 117, 132, 159, 166)
Superseded(g) == patternGeneration # g

\* ov: the wait after a unit is the overlap wait, audioOverlap > 0 (169),
\* which a pattern of one unit never comes to; overlap: the audioOverlap
\* that wait is computed with
SeqOp(n, v) ==
    [ mode |-> "seq", n |-> n, i |-> 1, pc |-> "load", ov |-> v > 0 /\ n > 1,
      overlap |-> IF v > 0 /\ n > 1 THEN v ELSE 0,
      units |-> << >>, stopped |-> FALSE ]

SimOp(n) ==
    [ mode |-> "sim", n |-> n, i |-> 1, pc |-> "all", ov |-> FALSE,
      overlap |-> 0, units |-> [ k \in 1 .. n |-> "timer" ], stopped |-> FALSE ]

\* a call that returned, and one whose promise can never settle
DoneOp ==
    [ mode |-> "seq", n |-> 0, i |-> 0, pc |-> "done", ov |-> FALSE,
      overlap |-> 0, units |-> << >>, stopped |-> FALSE ]
HungOp == [ DoneOp EXCEPT !.pc = "hung" ]

Finish(op) == [ op EXCEPT !.pc = "done" ]

\* Promise.all (106) and the clean-up after it (109-112), which pauses
\* elements that ended already
Normalize(op) ==
    IF op.mode = "sim"
    THEN IF \A k \in DOMAIN op.units : op.units[k] = "done" THEN DoneOp
         ELSE IF \A k \in DOMAIN op.units :
                     op.units[k] \in { "done", "cleared", "stuck" }
         THEN HungOp
         ELSE op
    ELSE IF op.pc = "done" THEN DoneOp ELSE op

\* the loop goes to its next unit (115-156): the end of the pattern, the
\* break of line 117, or pause(), load() and the 500 ms timeout
LoopTop(g, op) ==
    IF op.i >= op.n THEN Finish(op)
    ELSE IF cuePaused \/ Superseded(g) THEN Finish(op)
    ELSE [ op EXCEPT !.i = op.i + 1, !.pc = "load" ]

\* after the load promise resolved: the break of line 159, or play() (162)
AfterLoad(g, op) ==
    IF cuePaused \/ Superseded(g) THEN Finish(op)
    ELSE [ op EXCEPT !.pc = "play" ]

\* after play() resolved: the break of line 166, the overlap wait (169-172)
\* or the wait for ended (174-180)
AfterPlayed(g, op) ==
    IF Superseded(g) THEN Finish(op)
    ELSE IF op.ov /\ op.i < op.n THEN [ op EXCEPT !.pc = "wait" ]
    ELSE [ op EXCEPT !.pc = "ended" ]

\* the stagger timeout's callback (76-99): resolve, or a fresh element and
\* play()
AfterStagger(g) == IF cuePaused \/ Superseded(g) THEN "done" ELSE "play"

\* stopAllAudio (26-41) as a call in flight sees it: pause() rejects a
\* pending play(), a stopped element never ends, a cleared timeout never
\* fires
StopUnit(u) ==
    CASE u = "timer" -> "cleared"
      [] u = "play" -> "done"
      [] u = "sounding" -> "stuck"
      [] OTHER -> u

StopOp(op) ==
    IF op.mode = "sim"
    THEN [ op EXCEPT !.units = [ k \in DOMAIN op.units |-> StopUnit(op.units[k]) ] ]
    ELSE IF op.pc = "play" THEN Finish(op) ELSE op

StopOps == [ g \in DOMAIN cueOps |-> Normalize(StopOp(cueOps[g])) ]

\* audioRef's element after the loop of generation g called load() on it
Loading(g) == [ on |-> FALSE, loading |-> TRUE, gen |-> g ]

\* the event of a call that went past its guard: the length of its pattern
\* and the audioOverlap of the render that made it
SpeakEv(g, n, v) ==
    [ op |-> "speak", ran |-> {}, acted |-> { g }, n |-> n, overlap |-> v ]

\* mutant of the mode test: simultaneous only above 1000 ms
SimultaneousAbove(n, v) == v > 1000 /\ n > 1

\* audioOverlap >= 1000 && currentPattern.length > 1 (60)
Simultaneous(n, v) == v >= 1000 /\ n > 1

\* speakPattern(pattern) with pattern.length = n (44-112, 115-156), made
\* by a render in which the hook's parameter audioOverlap was v (189)
Speak(n, v) ==
    /\ patternGeneration < MaxGen
    /\ UNCHANGED << cuePaused, pageVars >>
    /\ IF cuePaused \/ n = 0
       THEN /\ cueEv' = CueEv("speakIgnored", {}, {})
            /\ UNCHANGED << patternGeneration, cueOps, mainAudio, activeAudio >>
       ELSE LET g == patternGeneration + 1
                sim == Simultaneous(n, v)
            IN  /\ patternGeneration' = g
                /\ cueOps' = Append(StopOps,
                                    IF sim THEN SimOp(n)
                                           ELSE SeqOp(n, v))
                /\ activeAudio' = {}
                /\ mainAudio' = IF sim THEN [ mainAudio EXCEPT !.on = FALSE ]
                                       ELSE Loading(g)
                /\ cueEv' = SpeakEv(g, n, v)

\* setPaused (21-23), called when the session is paused or resumed
SetPaused ==
    /\ cuePaused' = ~cuePaused
    /\ cueEv' = CueEv("setPaused", {}, {})
    /\ UNCHANGED << patternGeneration, cueOps, mainAudio, activeAudio,
                    pageVars >>

\* history: the calls that were in flight when stopAllAudio was called from
\* outside are marked
Stopped(ops) ==
    [ g \in DOMAIN ops |->
        IF ops[g].pc \in { "done", "hung" } THEN ops[g]
        ELSE [ ops[g] EXCEPT !.stopped = TRUE ] ]

\* stopAllAudio (26-41), called from outside the hook
StopAllAudio ==
    /\ cueOps # << >>
    /\ cueOps' = Stopped(StopOps)
    /\ mainAudio' = [ mainAudio EXCEPT !.on = FALSE ]
    /\ activeAudio' = {}
    /\ cueEv' = CueEv("stopAllAudio", {}, {})
    /\ UNCHANGED << patternGeneration, cuePaused, pageVars >>

InLoad == { g \in DOMAIN cueOps : cueOps[g].pc = "load" }

\* canplaythrough on audioRef's element: every handleCanPlay still
\* attached runs (136-140), and the loop behind it goes on at line 159
CanPlay ==
    /\ mainAudio.loading
    /\ mainAudio' = [ mainAudio EXCEPT !.loading = FALSE ]
    /\ cueOps' = [ g \in DOMAIN cueOps |->
                     IF g \in InLoad THEN Normalize(AfterLoad(g, cueOps[g]))
                                     ELSE cueOps[g] ]
    /\ cueEv' = CueEv("canplaythrough", InLoad,
                      { g \in InLoad : AfterLoad(g, cueOps[g]).pc = "play" })
    /\ UNCHANGED << patternGeneration, activeAudio, cuePaused, pageVars >>

\* error on audioRef's element: every handleError still attached rejects
\* (141-145), and the catch of line 184 ends the call
LoadError ==
    /\ mainAudio.loading
    /\ mainAudio' = [ mainAudio EXCEPT !.loading = FALSE ]
    /\ cueOps' = [ g \in DOMAIN cueOps |->
                     IF g \in InLoad THEN Normalize(Finish(cueOps[g]))
                                     ELSE cueOps[g] ]
    /\ cueEv' = CueEv("error", InLoad, {})
    /\ UNCHANGED << patternGeneration, activeAudio, cuePaused, pageVars >>

\* the 500 ms timeout of line 151 fires while the load promise is pending
\* and resolves it.  (Once the promise is settled the timeout is inert: it
\* removes listeners that are removed already.)
LoadTimeout(g) ==
    /\ cueOps[g].pc = "load"
    /\ LET after == AfterLoad(g, cueOps[g])
       IN  /\ cueOps' = [ cueOps EXCEPT ![g] = Normalize(after) ]
           /\ cueEv' = CueEv("loadTimeout", { g },
                             IF after.pc = "play" THEN { g } ELSE {})
    /\ UNCHANGED << playerVars, pageVars >>

\* audio.duration * 1000 of the sound files, in ms, and the playbackSpeed of
\* the render that made the call, in tenths
UnitDurations == { 150, 600 }

\* mutant of the wait: without Math.max
WaitTimeUnclamped(duration, speed, overlap) == (duration * 10) \div speed - overlap

\* (audio.duration * 1000) / playbackSpeed and Math.max(0, durationMs -
\* audioOverlap) (170-171)
WaitTime(duration, speed, overlap) ==
    LET durationMs == (duration * 10) \div speed
    IN  IF durationMs - overlap > 0 THEN durationMs - overlap ELSE 0

\* the event of a play() that resolved: the unit's duration, the speed and
\* the time the loop waits before it goes on; a loop that waits for ended
\* or breaks reads neither, and its wait is -1
PlayedEv(g, duration, speed, wait) ==
    [ op |-> "played", ran |-> { g }, acted |-> { g }, duration |-> duration,
      speed |-> speed, wait |-> wait ]

\* the play() of line 162 resolved: the unit sounds
PlayResolved(g) ==
    /\ cueOps[g].pc = "play"
    /\ LET after == AfterPlayed(g, cueOps[g])
       IN  /\ cueOps' = [ cueOps EXCEPT ![g] = Normalize(after) ]
           /\ IF after.pc = "wait"
              THEN \E d \in UnitDurations, sp \in PlaybackSpeeds :
                      cueEv' = PlayedEv(g, d, sp,
                                        WaitTime(d, sp, cueOps[g].overlap))
              ELSE cueEv' = PlayedEv(g, 0, InitialPlaybackSpeed, -1)
    /\ mainAudio' = [ mainAudio EXCEPT !.on = TRUE, !.gen = g ]
    /\ UNCHANGED << patternGeneration, activeAudio, cuePaused, pageVars >>

\* the play() of line 162 rejected (autoplay policy): the catch of line 184
PlayRejected(g) ==
    /\ cueOps[g].pc = "play"
    /\ cueOps' = [ cueOps EXCEPT ![g] = Normalize(Finish(cueOps[g])) ]
    /\ cueEv' = CueEv("playRejected", { g }, {})
    /\ UNCHANGED << playerVars, pageVars >>

\* the overlap wait of line 172 is over
OverlapElapsed(g) ==
    /\ cueOps[g].pc = "wait"
    /\ LET after == LoopTop(g, cueOps[g])
       IN  /\ cueOps' = [ cueOps EXCEPT ![g] = Normalize(after) ]
           /\ mainAudio' = IF after.pc = "load" THEN Loading(g) ELSE mainAudio
           /\ cueEv' = CueEv("overlapElapsed", { g },
                             IF after.pc = "load" THEN { g } ELSE {})
    /\ UNCHANGED << patternGeneration, activeAudio, cuePaused, pageVars >>

InEnded == { g \in DOMAIN cueOps : cueOps[g].pc = "ended" }

\* ended on audioRef's element: every handleEnded still attached runs
\* (175-178), and the loop behind it goes to its next unit
Ended ==
    /\ mainAudio.on
    /\ LET starters == { g \in InEnded : LoopTop(g, cueOps[g]).pc = "load" }
       IN  /\ cueOps' = [ g \in DOMAIN cueOps |->
                            IF g \in InEnded
                            THEN Normalize(LoopTop(g, cueOps[g]))
                            ELSE cueOps[g] ]
           /\ mainAudio' = IF starters = {}
                           THEN [ mainAudio EXCEPT !.on = FALSE ]
                           ELSE Loading(CHOOSE g \in starters :
                                           \A h \in starters : h <= g)
           /\ cueEv' = CueEv("ended", InEnded, starters)
    /\ UNCHANGED << patternGeneration, activeAudio, cuePaused, pageVars >>

\* cueOps with the unit k of the simultaneous call g in state u
WithUnit(g, k, u) ==
    [ cueOps EXCEPT ![g] = Normalize([ cueOps[g] EXCEPT !.units[k] = u ]) ]

IsUnit(g, k, u) ==
    /\ cueOps[g].mode = "sim"
    /\ k \in DOMAIN cueOps[g].units
    /\ cueOps[g].units[k] = u

\* the stagger timeout of unit k fires (75-100), after those of the units
\* before it (index * 80 ms)
StaggerFire(g, k) ==
    /\ IsUnit(g, k, "timer")
    /\ \A j \in 1 .. k - 1 : cueOps[g].units[j] # "timer"
    /\ cueOps' = WithUnit(g, k, AfterStagger(g))
    /\ activeAudio' = IF AfterStagger(g) = "play"
                      THEN activeAudio \cup { << g, k >> }
                      ELSE activeAudio
    /\ cueEv' = CueEv("stagger", { g },
                      IF AfterStagger(g) = "play" THEN { g } ELSE {})
    /\ UNCHANGED << patternGeneration, mainAudio, cuePaused, pageVars >>

\* the play() of line 90 resolved: the unit sounds, handleEnded is attached
SimPlayResolved(g, k) ==
    /\ IsUnit(g, k, "play")
    /\ cueOps' = WithUnit(g, k, "sounding")
    /\ cueEv' = CueEv("simPlayed", { g }, { g })
    /\ UNCHANGED << playerVars, pageVars >>

\* the play() of line 90 rejected: resolve (97-99)
SimPlayRejected(g, k) ==
    /\ IsUnit(g, k, "play")
    /\ cueOps' = WithUnit(g, k, "done")
    /\ cueEv' = CueEv("simPlayRejected", { g }, {})
    /\ UNCHANGED << playerVars, pageVars >>

\* ended on the element of unit k (92-95)
SimEnded(g, k) ==
    /\ IsUnit(g, k, "sounding")
    /\ cueOps' = WithUnit(g, k, "done")
    /\ cueEv' = CueEv("simEnded", { g }, {})
    /\ UNCHANGED << playerVars, pageVars >>

AudioNext ==
    \/ \E n \in 0 .. MaxUnits, v \in Overlaps : Speak(n, v)
    \/ SetPaused
    \/ StopAllAudio
    \/ CanPlay
    \/ LoadError
    \/ Ended
    \/ \E g \in DOMAIN cueOps : LoadTimeout(g)
    \/ \E g \in DOMAIN cueOps : PlayResolved(g)
    \/ \E g \in DOMAIN cueOps : PlayRejected(g)
    \/ \E g \in DOMAIN cueOps : OverlapElapsed(g)
    \/ \E g \in DOMAIN cueOps, k \in 1 .. MaxUnits : StaggerFire(g, k)
    \/ \E g \in DOMAIN cueOps, k \in 1 .. MaxUnits : SimPlayResolved(g, k)
    \/ \E g \in DOMAIN cueOps, k \in 1 .. MaxUnits : SimPlayRejected(g, k)
    \/ \E g \in DOMAIN cueOps, k \in 1 .. MaxUnits : SimEnded(g, k)

SpecAudio == PageInit /\ [][AudioNext]_vars

\* the calls that sound or are about to: a pending or resolved play()
Sounding ==
    { g \in DOMAIN cueOps :
        \/ cueOps[g].pc = "play"
        \/ \E k \in DOMAIN cueOps[g].units :
              cueOps[g].units[k] \in { "play", "sounding" } }
    \cup (IF mainAudio.on THEN { mainAudio.gen } ELSE {})

(***************************************************************************)
(* SpecSignal: the signal player, hook useBeeps of src/src/lib/audio.ts.   *)
(* A sequence is a row of awaits: a beep (playBeep, which resolves after   *)
(* the beep's duration) or a gap (a timeout).  Creating the oscillator of  *)
(* a beep can throw (a closed context), which rejects the promise of       *)
(* playBeep; the finally of the sequence resets its guard.                 *)
(***************************************************************************)
\* playRoundStartBeeps (321-325) and playRoundEndBeeps (341-347)
StartSequence == << "beep", "gap", "beep", "gap", "beep" >>
EndSequence == << "beep", "gap", "beep", "gap", "beep", "gap", "beep" >>

\* mutant of the start sequence's durations: a third short beep for the
\* long one
StartDurationsEven == << 300, 700, 300, 700, 300 >>

\* mutant of the end sequence's durations: short beeps as short as those of
\* the start sequence
EndDurationsShort == << 300, 600, 300, 600, 300, 600, 1000 >>

\* the durations of the beeps and the gaps, in ms (321-325, 341-347)
StartDurations == << 300, 700, 300, 700, 1000 >>
EndDurations == << 400, 600, 400, 600, 400, 600, 1000 >>

\* the time the await of step k takes: playBeep resolves after the beep's
\* duration (305-307), at once without a context (282-285); a gap is a
\* timeout
StepTime(seq, dur, k) == IF seq[k] = "beep" /\ ~audioContext THEN 0 ELSE dur[k]

\* the time from the call to the moment the await of step k resolves
Elapsed(seq, dur, k) ==
    LET F[j \in 0 .. k] == IF j = 0 THEN 0 ELSE F[j - 1] + StepTime(seq, dur, j)
    IN  F[k]

\* mutant of the start guard: one guard for both sequences
SharedGuard == isPlayingStartBeeps \/ isPlayingEndBeeps

\* the guards of lines 314 and 334
StartGuard == isPlayingStartBeeps
EndGuard == isPlayingEndBeeps

\* the steps a sequence can be at after the await of step k: the next step,
\* or 0 when that was the last one or when the next beep throws
NextSteps(seq, k) ==
    IF k = Len(seq) THEN { 0 }
    ELSE IF seq[k + 1] = "beep" THEN { k + 1, 0 }
    ELSE { k + 1 }

\* an oscillator of the sequence sounds
Beeping(seq, k) == k # 0 /\ seq[k] = "beep" /\ audioContext

\* the mount effect did not make the context (267-272): playBeep resolves
\* at once (282-285); the sequences run all the same
SignalInitAny ==
    /\ BeepState
    /\ audioContext \in BOOLEAN

\* playRoundStartBeeps() is called (312-329)
PlayRoundStartBeeps ==
    /\ IF StartGuard
       THEN /\ signalEv' = SignalEv("start", FALSE)
            /\ UNCHANGED << isPlayingStartBeeps, startStep >>
       ELSE /\ signalEv' = SignalEv("start", TRUE)
            /\ startStep' \in NextSteps(StartSequence, 0)
            /\ isPlayingStartBeeps' = (startStep' # 0)
    /\ UNCHANGED << audioContext, isPlayingEndBeeps, endStep, startSignals,
                    endSignals, sessionVars, timerVars, pageAudioVars, obsVars,
                    cueVars, setsVars, shareVars, genVars >>

\* playRoundEndBeeps() is called (332-351)
PlayRoundEndBeeps ==
    /\ IF EndGuard
       THEN /\ signalEv' = SignalEv("end", FALSE)
            /\ UNCHANGED << isPlayingEndBeeps, endStep >>
       ELSE /\ signalEv' = SignalEv("end", TRUE)
            /\ endStep' \in NextSteps(EndSequence, 0)
            /\ isPlayingEndBeeps' = (endStep' # 0)
    /\ UNCHANGED << audioContext, isPlayingStartBeeps, startStep, startSignals,
                    endSignals, sessionVars, timerVars, pageAudioVars, obsVars,
                    cueVars, setsVars, shareVars, genVars >>

\* the await the start sequence is at resolves (305-307, 322, 324)
StartBeepsStep ==
    /\ startStep # 0
    /\ startStep' \in NextSteps(StartSequence, startStep)
    /\ isPlayingStartBeeps' = (startStep' # 0)
    /\ signalEv' = SignalEv("startStep", FALSE)
    /\ UNCHANGED << audioContext, isPlayingEndBeeps, endStep, startSignals,
                    endSignals, sessionVars, timerVars, pageAudioVars, obsVars,
                    cueVars, setsVars, shareVars, genVars >>

\* the await the end sequence is at resolves (305-307, 342, 344, 346)
EndBeepsStep ==
    /\ endStep # 0
    /\ endStep' \in NextSteps(EndSequence, endStep)
    /\ isPlayingEndBeeps' = (endStep' # 0)
    /\ signalEv' = SignalEv("endStep", FALSE)
    /\ UNCHANGED << audioContext, isPlayingStartBeeps, startStep, startSignals,
                    endSignals, sessionVars, timerVars, pageAudioVars, obsVars,
                    cueVars, setsVars, shareVars, genVars >>

SignalNext ==
    \/ PlayRoundStartBeeps
    \/ PlayRoundEndBeeps
    \/ StartBeepsStep
    \/ EndBeepsStep

\* the page mounted, with or without an audio context
SignalSpecInit ==
    /\ SessionInit /\ config = TrainingConfig
    /\ CueInit
    /\ ShareInit
    /\ GenInit
    /\ SetsInit
    /\ SignalInitAny

SpecSignal == SignalSpecInit /\ [][SignalNext]_vars

(***************************************************************************)
(* SpecSets: the pattern-set collection of the page in the pattern-sets    *)
(* view.  The save effect (page.tsx 152-156) writes patternSets to         *)
(* localStorage after every change, so what is stored is the collection    *)
(* itself once the page is mounted.  The set that is being edited is the   *)
(* one createNewSet opened.                                                *)
(***************************************************************************)
Ids(sets) == { sets[k].id : k \in DOMAIN sets }

\* a stored set that was written without the isDefault field
Unflagged(s) == [ s EXCEPT !.isDefault = FALSE ]

\* the name importSharedSet gives on the k-th try (496-498)
Suffixed(baseName, counter) == baseName \o " (" \o ToString(counter) \o ")"

\* a user's set in storage, under a name an earlier import made
StoredCustom ==
    PatternSet("custom-0", Suffixed("Basic 1", 1), FALSE, << <<1, 2>> >>)

\* the arrays localStorage can hold under STORAGE_KEY_PATTERN_SETS: the
\* first built-in sets and a user's set, with the isDefault fields or
\* without them; the empty array stands for no item as well (119, 122)
StoredCollections ==
    LET flagged == DefaultPatternSets
        bare == [ k \in DOMAIN flagged |-> Unflagged(flagged[k]) ]
    IN  { SubSeq(sets, 1, n) \o user :
              sets \in { flagged, bare }, n \in 0 .. Len(flagged),
              user \in { << >>, << StoredCustom >> } }

\* the load of the mount effect (118-131): the stored array and, after it,
\* the built-in sets whose id it does not hold
Load(stored) ==
    IF Len(stored) > 0
    THEN stored \o SelectSeq(DefaultPatternSets, LAMBDA d : d.id \notin Ids(stored))
    ELSE DefaultPatternSets

\* the names and the pattern lists a share link can carry
ShareNames == { "Basic 1", "Shared" }
SharePatterns == { << <<1, 2>> >>, << <<1>>, <<1>> >> }

\* decodePatternSet of the import parameter (108-115, 444-460)
SharedSets ==
    { PatternSet("imported-0", n, FALSE, ps) :
          n \in ShareNames, ps \in SharePatterns }

\* the page mounted over any stored collection, with or without an import
\* parameter in the URL
SetsInitAny ==
    /\ SetsState
    /\ \E stored \in StoredCollections : patternSets = Load(stored)
    /\ sharedSetPreview \in { << >> } \cup { << set >> : set \in SharedSets }

\* the id `${kind}-${Date.now()}` (364, 563)
NewId(kind) == kind \o "-" \o ToString(now + 1)

\* what an operation on the collection leaves alone besides config
SetsFrame ==
    UNCHANGED << phase, currentRound, timeRemaining, currentPattern, isPaused,
                 timerVars, pageAudioVars, obsVars, signalVars, cueVars,
                 shareVars, genVars >>

\* setPatternSets([...patternSets, newSet]) of a set made now
AppendSet(op, set) ==
    /\ phase = "setup"
    /\ now < MaxNewSets
    /\ now' = now + 1
    /\ patternSets' = Append(patternSets, set)
    /\ setOp' = SetOp(op, set.id)
    /\ UNCHANGED config
    /\ SetsFrame

\* the names typed into the new set input, trimmed
NewSetNames == { "Mine" }

\* createNewSet with a name (362-373)
CreateNewSet ==
    /\ \E name \in NewSetNames :
          AppendSet("create", PatternSet(NewId("custom"), name, FALSE, << >>))
    /\ editingSet' = NewId("custom")
    /\ UNCHANGED sharedSetPreview

\* the pattern lists generateRandomPatternSet can draw (533-558)
GeneratedPatterns == { << <<1>>, <<2>>, <<3, 4>> >> }

\* s.name.startsWith('Random Set') (563): of the names of the collection,
\* those generateRandomPatternSet made
RandomSetNames == { "Random Set " \o ToString(k) : k \in 1 .. MaxNewSets + 1 }

\* the name of a generated set (563)
RandomSetName ==
    "Random Set " \o ToString(
        Cardinality({ k \in DOMAIN patternSets :
                        patternSets[k].name \in RandomSetNames }) + 1)

\* generateRandomPatternSet (532-568)
GenerateRandomPatternSet ==
    /\ \E ps \in GeneratedPatterns :
          AppendSet("generate",
                    PatternSet(NewId("random"), RandomSetName, FALSE, ps))
    /\ UNCHANGED << editingSet, sharedSetPreview >>

(***************************************************************************)
(* SpecGenerate: generateRandomPatternSet, one iteration of its loop at a  *)
(* time.  A value of Math.random() is counted in hundredths.               *)
(***************************************************************************)
\* the values of Math.random() the model draws
Randoms == { 10, 70 }

\* Math.floor(Math.random() * 4) + 1 (526)
Punch(r) == (r * 4) \div 100 + 1

\* Math.floor(Math.random() * 6) + 3 (533)
SetSize(r) == (r * 6) \div 100 + 3

\* the length of the pattern of an iteration (538-543)
PatternLength(rand) ==
    IF rand < 50 THEN 1
    ELSE IF rand < 80 THEN 2
    ELSE IF rand < 95 THEN 3
    ELSE 4

\* length === 1 ? 2 : 1 (552)
AltLength(length) == IF length = 1 THEN 2 ELSE 1

\* the draws of one call of generateRandomPattern(length)
Draws(length) == [ 1 .. length -> Randoms ]

\* generateRandomPattern (522-529) over the draws rs
GenerateRandomPattern(rs) == [ k \in DOMAIN rs |-> Punch(rs[k]) ]

\* patterns.some(p => JSON.stringify(p) === JSON.stringify(newPattern))
IsDuplicate(patterns, newPattern) ==
    \E k \in DOMAIN patterns : patterns[k] = newPattern

\* the body of the loop (545-557): patterns after the iteration that drew
\* newPattern and, for the second try, altPattern
Pushed(patterns, newPattern, altPattern) ==
    IF ~IsDuplicate(patterns, newPattern) THEN Append(patterns, newPattern)
    ELSE IF ~IsDuplicate(patterns, altPattern) THEN Append(patterns, altPattern)
    ELSE patterns

GenFrame ==
    UNCHANGED << sessionVars, timerVars, pageAudioVars, obsVars, signalVars,
                 cueVars, setsVars, shareVars >>

\* generateRandomPatternSet is called: lines 533-534
GenCall ==
    /\ phase = "setup"
    /\ generator.op \in { "idle", "return" }
    /\ \E r \in Randoms :
          generator' = Generator("call", SetSize(r), 0, << >>)
    /\ GenFrame

\* one iteration of the loop of lines 536-559
GenIteration ==
    /\ generator.op \in { "call", "loop" }
    /\ generator.i < generator.setSize
    /\ \E rand \in Randoms :
          \E rs \in Draws(PatternLength(rand)),
             alts \in Draws(AltLength(PatternLength(rand))) :
              generator' =
                  Generator("loop", generator.setSize, generator.i + 1,
                            Pushed(generator.patterns,
                                   GenerateRandomPattern(rs),
                                   GenerateRandomPattern(alts)))
    /\ GenFrame

\* the loop is over: newSet is made of patterns (561-565)
GenReturn ==
    /\ generator.op \in { "call", "loop" }
    /\ ~(generator.i < generator.setSize)
    /\ generator' = [ generator EXCEPT !.op = "return" ]
    /\ GenFrame

GenNext == GenCall \/ GenIteration \/ GenReturn

SpecGenerate == PageInit /\ [][GenNext]_vars

Names(sets) == { sets[k].name : k \in DOMAIN sets }

\* the smallest counter from `counter` on whose name is not in use (496-498)
RECURSIVE FreeCounter(_, _, _)
FreeCounter(baseName, names, counter) ==
    IF Suffixed(baseName, counter) \in names
    THEN FreeCounter(baseName, names, counter + 1)
    ELSE counter

\* mutant of the import name: the first suffix, in use or not
ImportNameFirst(name, names) ==
    IF name \in names THEN Suffixed(name, 1) ELSE name

\* the name importSharedSet gives the set (487-499)
ImportName(name, names) ==
    IF name \in names THEN Suffixed(name, FreeCounter(name, names, 1)) ELSE name

\* importSharedSet(sharedSetPreview) (485-509)
ImportSharedSet ==
    /\ phase = "setup"
    /\ sharedSetPreview # << >>
    /\ patternSets' = Append(patternSets,
          [ sharedSetPreview[1] EXCEPT
                !.name = ImportName(@, Names(patternSets)) ])
    /\ sharedSetPreview' = << >>
    /\ setOp' = SetOp("import", sharedSetPreview[1].id)
    /\ UNCHANGED << config, editingSet, now >>
    /\ SetsFrame

\* deleteSet(setId) (375-390)
DeleteSet(setId) ==
    /\ phase = "setup"
    /\ setOp' = SetOp("delete", setId)
    /\ LET setToDelete == SelectSeq(patternSets, LAMBDA s : s.id = setId)
           newSets == SelectSeq(patternSets, LAMBDA s : s.id # setId)
       IN  IF setToDelete # << >> /\ setToDelete[1].isDefault
           THEN UNCHANGED << patternSets, config, editingSet >>
           ELSE /\ patternSets' = newSets
                /\ config' = IF config.setId = setId /\ Len(newSets) > 0
                             THEN [ config EXCEPT !.setId = newSets[1].id ]
                             ELSE config
                /\ editingSet' = IF editingSet = setId THEN NoSetId
                                 ELSE editingSet
    /\ UNCHANGED << sharedSetPreview, now >>
    /\ SetsFrame

\* the patterns the pattern input and the remove buttons name
EditPatterns == { <<1>>, <<2>> }

\* the patterns of a set after addPatternToSet (399-409)
WithPattern(ps, nums) ==
    IF \E k \in DOMAIN ps : ps[k] = nums THEN ps ELSE Append(ps, nums)

\* mutant of the removal: the last pattern is removed as well
WithoutPatternAtAll(ps, pattern) == SelectSeq(ps, LAMBDA p : p # pattern)

\* the patterns of a set after removePatternFromSet (419-420)
WithoutPattern(ps, pattern) ==
    LET newPatterns == SelectSeq(ps, LAMBDA p : p # pattern)
    IN  IF Len(newPatterns) > 0 THEN newPatterns ELSE ps

\* addPatternToSet(setId) with nums in the input (392-414), which the page
\* offers for the set that is being edited (859, 865, 871)
AddPatternToSet(setId, nums) ==
    /\ phase = "setup"
    /\ editingSet = setId
    /\ patternSets' = [ k \in DOMAIN patternSets |->
          IF patternSets[k].id = setId
          THEN [ patternSets[k] EXCEPT !.patterns = WithPattern(@, nums) ]
          ELSE patternSets[k] ]
    /\ setOp' = PatternOp("addPattern", setId, nums)
    /\ UNCHANGED << config, editingSet, sharedSetPreview, now >>
    /\ SetsFrame

\* removePatternFromSet(setId, pattern) (416-424), which the page offers for
\* the set that is being edited (846-848)
RemovePatternFromSet(setId, pattern) ==
    /\ phase = "setup"
    /\ editingSet = setId
    /\ patternSets' = [ k \in DOMAIN patternSets |->
          IF patternSets[k].id = setId
          THEN [ patternSets[k] EXCEPT !.patterns = WithoutPattern(@, pattern) ]
          ELSE patternSets[k] ]
    /\ setOp' = PatternOp("removePattern", setId, pattern)
    /\ UNCHANGED << config, editingSet, sharedSetPreview, now >>
    /\ SetsFrame

\* the USE button: updateConfig("selectedPatternSetId", set.id) (803)
SelectSet(setId) ==
    /\ phase = "setup"
    /\ config.setId # setId
    /\ config' = [ config EXCEPT !.setId = setId ]
    /\ setOp' = SetOp("select", setId)
    /\ UNCHANGED << patternSets, editingSet, sharedSetPreview, now >>
    /\ SetsFrame

SetsNext ==
    \/ CreateNewSet
    \/ GenerateRandomPatternSet
    \/ ImportSharedSet
    \/ \E id \in Ids(patternSets) : DeleteSet(id)
    \/ \E id \in Ids(patternSets), nums \in EditPatterns : AddPatternToSet(id, nums)
    \/ \E id \in Ids(patternSets), p \in EditPatterns : RemovePatternFromSet(id, p)
    \/ \E id \in Ids(patternSets) : SelectSet(id)

\* the page mounted in the setup view over any stored collection
SetsSpecInit ==
    /\ SessionInit /\ config = TrainingConfig
    /\ SignalInit
    /\ CueInit
    /\ ShareInit
    /\ GenInit
    /\ SetsInitAny

SpecSets == SetsSpecInit /\ [][SetsNext]_vars

\* the arrays the save effect of this page writes (152-156): nothing yet, or
\* the built-in sets with their isDefault fields and a user's set
WrittenCollections == { << >>, DefaultPatternSets \o << StoredCustom >> }

\* the page mounted in the setup view over a collection it stored itself
EditSpecInit ==
    /\ SessionInit /\ config = TrainingConfig
    /\ SignalInit
    /\ CueInit
    /\ ShareInit
    /\ GenInit
    /\ SetsState
    /\ \E stored \in WrittenCollections : patternSets = Load(stored)
    /\ sharedSetPreview \in { << >> } \cup { << set >> : set \in SharedSets }

\* SpecEdit: the operations on the collection, over what the page stored
SpecEdit == EditSpecInit /\ [][SetsNext]_vars

(***************************************************************************)
(* SpecShare: share links.  A string is the sequence of its UTF-16 code    *)
(* units.  A token is a sequence over the base64 alphabet: 0 .. 63 are     *)
(* "A" .. "/" (62 is "+"), 64 is "=", 65 is a space and 66 stands for any  *)
(* other character.  A JSON value is a record with its type t and its      *)
(* content v; the texts are those JSON.stringify writes (no white space,   *)
(* integers without sign, the escapes of the quote and the backslash).     *)
(***************************************************************************)
Ok(val) == [ threw |-> FALSE, val |-> val ]
Thrown == [ threw |-> TRUE, val |-> << >> ]

JNull == [ t |-> "null", v |-> << >> ]
JUndefined == [ t |-> "undefined", v |-> << >> ]
JBool(b) == [ t |-> "bool", v |-> b ]
JNum(n) == [ t |-> "num", v |-> n ]
JStr(str) == [ t |-> "str", v |-> str ]
JArr(items) == [ t |-> "arr", v |-> items ]
\* an object: its members in the order written, each << key, value >>
JObj(members) == [ t |-> "obj", v |-> members ]

\* the concatenation of the sequences of seqs, with sep between them
RECURSIVE Join(_, _)
Join(seqs, sep) ==
    IF Len(seqs) = 0 THEN << >>
    ELSE IF Len(seqs) = 1 THEN seqs[1]
    ELSE seqs[1] \o sep \o Join(Tail(seqs), sep)

\* JSON.stringify of a string: quotes, and a backslash before a quote (34)
\* and before a backslash (92)
JsonString(str) ==
    << 34 >> \o Join([ k \in DOMAIN str |->
                        IF str[k] \in { 34, 92 } THEN << 92, str[k] >>
                        ELSE << str[k] >> ], << >>)
             \o << 34 >>

\* JSON.stringify of an integer 0 .. 99
JsonNumber(n) ==
    IF n < 10 THEN << 48 + n >> ELSE << 48 + (n \div 10), 48 + (n % 10) >>

\* JSON.stringify of a JSON value
RECURSIVE JsonText(_)
JsonText(val) ==
    CASE val.t = "null" -> << 110, 117, 108, 108 >>
      [] val.t = "bool" -> IF val.v THEN << 116, 114, 117, 101 >>
                           ELSE << 102, 97, 108, 115, 101 >>
      [] val.t = "num" -> JsonNumber(val.v)
      [] val.t = "str" -> JsonString(val.v)
      [] val.t = "arr" ->
            << 91 >> \o Join([ k \in DOMAIN val.v |-> JsonText(val.v[k]) ], << 44 >>)
                     \o << 93 >>
      [] val.t = "obj" ->
            << 123 >> \o Join([ k \in DOMAIN val.v |->
                                  JsonString(val.v[k][1]) \o << 58 >>
                                      \o JsonText(val.v[k][2]) ], << 44 >>)
                      \o << 125 >>

\* a pattern list as a JSON value
JPatterns(patterns) ==
    JArr([ k \in DOMAIN patterns |->
             JArr([ j \in DOMAIN patterns[k] |-> JNum(patterns[k][j]) ]) ])

\* { n: set.name, p: set.patterns } (page.tsx 431-434)
ShareData(set) ==
    JObj(<< << << 110 >>, JStr(set.name) >>, << << 112 >>, JPatterns(set.patterns) >> >>)

\* base64 of a sequence of bytes
RECURSIVE Base64(_)
Base64(b) ==
    IF Len(b) = 0 THEN << >>
    ELSE IF Len(b) = 1 THEN << b[1] \div 4, (b[1] % 4) * 16, 64, 64 >>
    ELSE IF Len(b) = 2
    THEN << b[1] \div 4, (b[1] % 4) * 16 + (b[2] \div 16), (b[2] % 16) * 4, 64 >>
    ELSE << b[1] \div 4, (b[1] % 4) * 16 + (b[2] \div 16),
            (b[2] % 16) * 4 + (b[3] \div 64), b[3] % 64 >>
           \o Base64(SubSeq(b, 4, Len(b)))

\* btoa: InvalidCharacterError for a code unit above 255
Btoa(str) ==
    IF \E k \in DOMAIN str : str[k] > 255 THEN Thrown ELSE Ok(Base64(str))

\* the bytes of a sequence of sextets whose length is not 1 modulo 4
RECURSIVE Bytes(_)
Bytes(c) ==
    IF Len(c) < 2 THEN << >>
    ELSE IF Len(c) = 2 THEN << c[1] * 4 + (c[2] \div 16) >>
    ELSE IF Len(c) = 3
    THEN << c[1] * 4 + (c[2] \div 16), (c[2] % 16) * 16 + (c[3] \div 4) >>
    ELSE << c[1] * 4 + (c[2] \div 16), (c[2] % 16) * 16 + (c[3] \div 4),
            (c[3] % 4) * 64 + c[4] >>
           \o Bytes(SubSeq(c, 5, Len(c)))

\* atob (forgiving base64 decode): white space is dropped, one or two "="
\* are dropped from the end of a length that is a multiple of 4, and a
\* length of 1 modulo 4 or any other character is an InvalidCharacterError
Atob(token) ==
    LET data == SelectSeq(token, LAMBDA c : c # 65)
        n == Len(data)
        body == IF n > 0 /\ n % 4 = 0 /\ data[n] = 64
                THEN IF data[n - 1] = 64 THEN SubSeq(data, 1, n - 2)
                     ELSE SubSeq(data, 1, n - 1)
                ELSE data
    IN  IF Len(body) % 4 = 1 \/ \E k \in DOMAIN body : body[k] > 63
        THEN Thrown
        ELSE Ok(Bytes(body))

\* the result of parsing a value: ok, the value, and the index after it
Parsed(val, pos) == [ ok |-> TRUE, val |-> val, pos |-> pos ]
NotParsed == [ ok |-> FALSE, val |-> JNull, pos |-> 0 ]

\* text holds word at index i
HasWord(text, i, word) ==
    /\ i + Len(word) - 1 <= Len(text)
    /\ SubSeq(text, i, i + Len(word) - 1) = word

RECURSIVE ParseValue(_, _)
RECURSIVE ParseChars(_, _, _)
RECURSIVE ParseDigits(_, _, _)
RECURSIVE ParseElements(_, _, _)
RECURSIVE ParseMembers(_, _, _)

\* the characters of a string from index i, after the opening quote
ParseChars(text, i, acc) ==
    IF i > Len(text) \/ text[i] < 32 THEN NotParsed
    ELSE IF text[i] = 34 THEN Parsed(JStr(acc), i + 1)
    ELSE IF text[i] = 92
    THEN IF i + 1 <= Len(text) /\ text[i + 1] \in { 34, 92 }
         THEN ParseChars(text, i + 2, Append(acc, text[i + 1]))
         ELSE NotParsed
    ELSE ParseChars(text, i + 1, Append(acc, text[i]))

\* the digits of an integer from index i
ParseDigits(text, i, acc) ==
    IF i <= Len(text) /\ text[i] \in 48 .. 57
    THEN ParseDigits(text, i + 1, acc * 10 + (text[i] - 48))
    ELSE Parsed(JNum(acc), i)

\* the elements of an array from index i, after "[" or ","
ParseElements(text, i, acc) ==
    LET r == ParseValue(text, i)
    IN  IF ~r.ok \/ r.pos > Len(text) THEN NotParsed
        ELSE IF text[r.pos] = 44 THEN ParseElements(text, r.pos + 1, Append(acc, r.val))
        ELSE IF text[r.pos] = 93 THEN Parsed(JArr(Append(acc, r.val)), r.pos + 1)
        ELSE NotParsed

\* the members of an object from index i, after "{" or ","
ParseMembers(text, i, acc) ==
    IF i > Len(text) \/ text[i] # 34 THEN NotParsed
    ELSE LET k == ParseChars(text, i + 1, << >>)
         IN  IF ~k.ok \/ k.pos > Len(text) \/ text[k.pos] # 58 THEN NotParsed
             ELSE LET r == ParseValue(text, k.pos + 1)
                      all == Append(acc, << k.val.v, r.val >>)
                  IN  IF ~r.ok \/ r.pos > Len(text) THEN NotParsed
                      ELSE IF text[r.pos] = 44 THEN ParseMembers(text, r.pos + 1, all)
                      ELSE IF text[r.pos] = 125 THEN Parsed(JObj(all), r.pos + 1)
                      ELSE NotParsed

\* the value that starts at index i
ParseValue(text, i) ==
    IF i > Len(text) THEN NotParsed
    ELSE IF text[i] = 34 THEN ParseChars(text, i + 1, << >>)
    ELSE IF text[i] = 48
    THEN IF i + 1 <= Len(text) /\ text[i + 1] \in 48 .. 57 THEN NotParsed
         ELSE Parsed(JNum(0), i + 1)
    ELSE IF text[i] \in 49 .. 57 THEN ParseDigits(text, i, 0)
    ELSE IF text[i] = 91
    THEN IF i + 1 <= Len(text) /\ text[i + 1] = 93 THEN Parsed(JArr(<< >>), i + 2)
         ELSE ParseElements(text, i + 1, << >>)
    ELSE IF text[i] = 123
    THEN IF i + 1 <= Len(text) /\ text[i + 1] = 125 THEN Parsed(JObj(<< >>), i + 2)
         ELSE ParseMembers(text, i + 1, << >>)
    ELSE IF HasWord(text, i, << 110, 117, 108, 108 >>) THEN Parsed(JNull, i + 4)
    ELSE IF HasWord(text, i, << 116, 114, 117, 101 >>) THEN Parsed(JBool(TRUE), i + 4)
    ELSE IF HasWord(text, i, << 102, 97, 108, 115, 101 >>)
    THEN Parsed(JBool(FALSE), i + 5)
    ELSE NotParsed

\* JSON.parse: SyntaxError unless the text is one value
JsonParse(text) ==
    LET r == ParseValue(text, 1)
    IN  IF r.ok /\ r.pos = Len(text) + 1 THEN Ok(r.val) ELSE Thrown

\* data[key] of a parsed value that is not null: the last member of that
\* key of an object, undefined otherwise
Member(data, key) ==
    IF data.t = "obj" /\ \E k \in DOMAIN data.v : data.v[k][1] = key
    THEN LET last == CHOOSE k \in DOMAIN data.v :
                        /\ data.v[k][1] = key
                        /\ \A j \in DOMAIN data.v : data.v[j][1] = key => j <= k
         IN  data.v[last][2]
    ELSE JUndefined

\* whether a value is truthy
Truthy(val) ==
    CASE val.t \in { "null", "undefined" } -> FALSE
      [] val.t = "bool" -> val.v
      [] val.t = "num" -> val.v # 0
      [] val.t = "str" -> val.v # << >>
      [] OTHER -> TRUE

\* encodePatternSet (page.tsx 429-441): the token, or the error of btoa
EncodePatternSet(set) == Btoa(JsonText(ShareData(set)))

\* decodePatternSet (444-460): the set, its name and patterns being the
\* values of n and p as parsed, or no set (the empty sequence); the errors
\* of atob and JSON.parse, and the TypeError of null.n, are caught
DecodePatternSet(token) ==
    LET json == Atob(token)
        data == JsonParse(json.val)
    IN  IF json.threw \/ data.threw \/ data.val.t = "null" THEN << >>
        ELSE LET n == Member(data.val, << 110 >>)
                 pp == Member(data.val, << 112 >>)
             IN  IF Truthy(n) /\ pp.t = "arr"
                 THEN << PatternSet("imported-0", n, FALSE, pp) >>
                 ELSE << >>

\* URLSearchParams.get("import") of the query `?import=${token}` (108-109,
\* 466): a "+" of the query is read as a space
UrlParam(token) == [ k \in DOMAIN token |-> IF token[k] = 62 THEN 65 ELSE token[k] ]

\* the names of the sets that are shared: "A", a quote, "~", e-acute and a
\* character outside Latin-1 (U+270A)
NameChars == { 65, 34, 126, 233, 9994 }
ShareableNames == UNION { [ 1 .. n -> NameChars ] : n \in 0 .. MaxNameLen }
ShareablePatterns == { << >>, << <<1>> >>, << <<1, 2>>, <<10>> >> }

\* the sets SHARE is clicked for
ShareableSets ==
    { PatternSet("custom-1", name, FALSE, ps) :
          name \in ShareableNames, ps \in ShareablePatterns }

\* tokens that were not made by SHARE: of texts of other shapes, of a text
\* cut short, and what is not base64
CraftedValues ==
    << JNull, JNum(5), JStr(<< 65 >>),
      JObj(<< << << 110 >>, JNum(1) >>, << << 112 >>, JArr(<< JNum(1) >>) >> >>),
      JObj(<< << << 110 >>, JStr(<< 65 >>) >>, << << 112 >>, JStr(<< 65 >>) >> >>),
      JObj(<< << << 110 >>, JStr(<< >>) >>, << << 112 >>, JArr(<< >>) >> >>),
      JObj(<< << << 112 >>, JArr(<< >>) >> >>) >>
CraftedTexts == { JsonText(CraftedValues[k]) : k \in DOMAIN CraftedValues }
CraftedTokens ==
    { Base64(text) : text \in CraftedTexts }
        \cup { Base64(SubSeq(text, 1, Len(text) - 1)) : text \in CraftedTexts }
        \cup { << 66 >>, << 16 >>, << 16, 16, 64, 66 >> }

\* sharePatternSet(set) (463-471)
SharePatternSet(set) ==
    /\ phase = "setup"
    /\ LET encoded == EncodePatternSet(set)
       IN  /\ shareUrl' = IF encoded.threw \/ encoded.val = << >> THEN shareUrl
                          ELSE encoded.val
           /\ shareEv' = ShareEv("share", set, encoded.threw)
    /\ UNCHANGED << sessionVars, timerVars, pageAudioVars, obsVars, signalVars,
                    cueVars, setsVars, genVars >>

\* the page is opened under `?import=${token}`: the mount effect (104-115)
OpenImportLink(token) ==
    /\ phase = "setup"
    /\ sharedSetPreview' = DecodePatternSet(UrlParam(token))
    /\ shareUrl' = << >>
    /\ shareEv' = ShareEv("open", token, FALSE)
    /\ UNCHANGED << sessionVars, timerVars, pageAudioVars, obsVars, signalVars,
                    cueVars, patternSets, editingSet, now, setOp, genVars >>

ShareNext ==
    \/ \E set \in ShareableSets : SharePatternSet(set)
    \/ \E token \in CraftedTokens \cup { shareUrl } : OpenImportLink(token)

SpecShare == PageInit /\ [][ShareNext]_vars

(***************************************************************************)
(* Properties of the cue players.                                          *)
(***************************************************************************)
\* C3: at every instant at most one speak operation is in flight: a call of
\* speak while another one is in flight ends the earlier one first
C3_AtMostOneSpeak == Len(speaks) <= 1

\* C11: pause cancels the speak in flight: a loop that was in flight at a
\* pause starts no further unit, also when the session is resumed before the
\* loop's pending wait is over
C11_PauseCancelsSpeak ==
    \A k \in DOMAIN speaks : speaks[k].cut => speaks[k].pc # "starting"

\* C15: after stopAllAudio, called in whatever state the player is in, no
\* audio of the speak it cancelled is sounding or starts later
C15_StopCancels ==
    \A g \in DOMAIN cueOps : cueOps[g].stopped => g \notin Sounding

\* C16: a unit that fails to load or to play is treated as finished: the
\* latest speak, not paused and with units left, goes on to its next unit
C16_FailedUnitIsSkipped ==
    [][ \A g \in DOMAIN cueOps :
          ( /\ cueEv'.op \in { "error", "playRejected" }
            /\ g \in cueEv'.ran
            /\ g = patternGeneration
            /\ ~cuePaused
            /\ cueOps[g].i < cueOps[g].n ) =>
              /\ cueOps'[g].pc = "load"
              /\ cueOps'[g].i = cueOps[g].i + 1 ]_vars

\* C17: a call of a signal sequence while that sequence is in progress does
\* not pass the guard and changes nothing of the signal player; a call while
\* the sequence is not in progress passes the guard whatever the other
\* sequence does; and after every step the guard of a sequence is set exactly
\* when the sequence is in progress.
C17_BusyGuards ==
    [][ /\ (signalEv'.op = "start" /\ isPlayingStartBeeps) =>
              (~signalEv'.began /\ UNCHANGED beepVars)
        /\ (signalEv'.op = "end" /\ isPlayingEndBeeps) =>
              (~signalEv'.began /\ UNCHANGED beepVars)
        /\ (signalEv'.op = "start" /\ ~isPlayingStartBeeps) => signalEv'.began
        /\ (signalEv'.op = "end" /\ ~isPlayingEndBeeps) => signalEv'.began
        /\ isPlayingStartBeeps' = (startStep' # 0)
        /\ isPlayingEndBeeps' = (endStep' # 0) ]_vars

\* a start call is refused while the second start beep and the third end beep
\* sound
C17_Witness == signalEv = SignalEv("start", FALSE) /\ isPlayingStartBeeps
    /\ isPlayingEndBeeps /\ Beeping(StartSequence, startStep) /\ startStep = 3
    /\ Beeping(EndSequence, endStep) /\ endStep = 5

\* C4: the generation counter never decreases, and a continuation of a
\* superseded speak (stagger timer, load completion or timeout, play
\* completion, overlap wait, ended event) starts no audio and changes no
\* player state: whatever acts, sounds or is about to sound belongs to the
\* latest generation, and a step in which only superseded calls continue
\* leaves the player as it is but for the event that started it
C4_StaleIsNoOp ==
    [][ /\ patternGeneration' >= patternGeneration
        /\ cueEv'.acted \subseteq { patternGeneration' }
        /\ Sounding' \subseteq { patternGeneration' }
        /\ (cueEv'.ran # {} /\ \A g \in cueEv'.ran : g < patternGeneration) =>
              /\ UNCHANGED << patternGeneration, activeAudio, cuePaused >>
              /\ mainAudio'.gen = mainAudio.gen
              /\ mainAudio'.on => mainAudio.on ]_vars

C4_Witness ==
    /\ cueEv.op = "overlapElapsed"
    /\ \E g \in cueEv.ran : g < patternGeneration
    /\ cueEv.acted = {}
    /\ mainAudio.on
    /\ mainAudio.gen = patternGeneration

\* C31: a call of speakPattern is simultaneous exactly when audioOverlap is
\* 1000 or more and the pattern has more than one unit, it makes the overlap
\* wait between units when audioOverlap is between 0 and 1000, and with
\* audioOverlap = 0 it waits for the end of every unit: the loop of such a
\* call goes to its next unit only on the ended event of the unit before.
C31_ModeOfCall ==
    [][ /\ cueEv'.op = "speak" =>
              LET op == cueOps'[patternGeneration']
                  n == cueEv'.n
                  v == cueEv'.overlap
              IN  /\ op.n = n
                  /\ (op.mode = "sim") <=> (v >= 1000 /\ n > 1)
                  /\ (0 < v /\ v < 1000) =>
                         (op.mode = "seq" /\ (op.ov <=> n > 1))
                  /\ v = 0 => (op.mode = "seq" /\ ~op.ov)
        /\ \A g \in DOMAIN cueOps :
              ( /\ cueOps[g].mode = "seq" /\ ~cueOps[g].ov
                /\ cueOps'[g].i > cueOps[g].i ) =>
                    (cueOps[g].pc = "ended" /\ cueEv'.op = "ended") ]_vars

\* a call with two units and audioOverlap = 1000 was made, and it is
\* simultaneous
C31_Witness == cueEv.op = "speak" /\ cueEv.overlap = 1000 /\ cueEv.n = 2
    /\ cueOps[patternGeneration].mode = "sim"

\* C36: after a unit of an overlapping call that is not the last, the loop
\* waits duration / speed - audioOverlap ms, and 0 ms when that is negative,
\* before it goes to the next unit, which it does when that wait is over;
\* after the last unit it waits for the ended event.
C36_OverlapWait ==
    [][ /\ cueEv'.op = "played" =>
          \A g \in cueEv'.ran :
              LET op == cueOps[g]
                  durationMs == (cueEv'.duration * 10) \div cueEv'.speed
              IN  (op.ov /\ ~Superseded(g)) =>
                      IF op.i < op.n
                      THEN /\ cueOps'[g].pc = "wait"
                           /\ cueEv'.wait >= 0
                           /\ cueEv'.wait >= durationMs - op.overlap
                           /\ cueEv'.wait \in { 0, durationMs - op.overlap }
                      ELSE /\ cueOps'[g].pc = "ended"
                           /\ cueEv'.wait = -1
        /\ \A g \in DOMAIN cueOps :
              (cueOps[g].ov /\ cueOps'[g].i > cueOps[g].i) =>
                  (cueOps[g].pc = "wait" /\ cueEv'.op = "overlapElapsed") ]_vars

\* a unit shorter than the overlap was played at 1.5x in an overlapping
\* call: the wait is 0
C36_Witness == cueEv.op = "played" /\ cueEv.wait = 0 /\ cueEv.duration = 150
    /\ cueEv.speed = 15
    /\ \E g \in cueEv.ran : cueOps[g].pc = "wait" /\ cueOps[g].overlap = 200

\* the durations of the beeps of a sequence, in order
Tones(seq, dur) ==
    LET F[k \in 0 .. Len(seq)] ==
            IF k = 0 THEN << >>
            ELSE IF seq[k] = "beep" THEN Append(F[k - 1], dur[k]) ELSE F[k - 1]
    IN  F[Len(seq)]

StartTones == Tones(StartSequence, StartDurations)
EndTones == Tones(EndSequence, EndDurations)

Count(seq, x) == Cardinality({ k \in DOMAIN seq : seq[k] = x })

\* round, rest, round, ..., round, complete: R rounds, R - 1 rests
FullSession(R) ==
    [ k \in 1 .. 2 * R |->
        IF k = 2 * R THEN "complete" ELSE IF k % 2 = 1 THEN "round" ELSE "rest" ]

\* C1: a session with rounds = R >= 1 that was started and never paused has,
\* when it reaches complete, gone through exactly R round phases and R - 1
\* rest phases, a rest after every round but the last
C1_RoundsAndRests ==
    (phase = "complete" /\ ~interrupted /\ config.rounds >= 1) =>
        /\ phaseLog = FullSession(config.rounds)
        /\ Count(phaseLog, "round") = config.rounds
        /\ Count(phaseLog, "rest") = config.rounds - 1

C1_Witness ==
    /\ phase = "complete"
    /\ ~interrupted
    /\ config.rounds = MaxRounds
    /\ Count(phaseLog, "rest") = MaxRounds - 1

IsPrefix(a, b) == Len(a) <= Len(b) /\ a = SubSeq(b, 1, Len(a))

\* C2: an uninterrupted session goes through countdown, round, rest, round,
\* ..., complete, with one start signal triggered before each round and one
\* end signal triggered in each round (when 5 seconds remain)
C2_CountdownAndSignals ==
    (phaseLog # << >> /\ ~interrupted /\ config.rounds >= 1) =>
        /\ IsPrefix(phaseLog, << "countdown" >> \o FullSession(config.rounds))
        /\ startSignals = Count(phaseLog, "round")
        /\ phase = "complete" => endSignals = config.rounds

\* C5: pause and then resume, with no second elapsed in between, leaves
\* timeRemaining, currentRound and phase as they were before the pause
\* (also when the 1-second interval comes due in between)
C5_PauseResume ==
    (ev.op = "resume" /\ pauseSnap # NoSnap) =>
        << timeRemaining, currentRound, phase >> = pauseSnap

C5_Witness ==
    /\ ev.op = "resume"
    /\ pauseSnap # NoSnap
    /\ phase = "round"
    /\ timeRemaining < RoundSeconds

\* C6: a tick while paused changes nothing of the session state; a tick
\* while unpaused in round or rest with more than one second remaining
\* takes exactly 1 off timeRemaining and leaves phase, currentRound and
\* isPaused as they are
C6_TickFrame ==
    [][ ev'.op = "tick" =>
          /\ isPaused => UNCHANGED sessionVars
          /\ (~isPaused /\ phase \in { "round", "rest" } /\ timeRemaining > 1) =>
                /\ timeRemaining' = timeRemaining - 1
                /\ UNCHANGED << phase, currentRound, isPaused >> ]_vars

C6_Witness ==
    /\ ev.op = "tick"
    /\ ev.paused
    /\ phase = "rest"
    /\ timeRemaining = config.restSeconds

\* C7: with at least two distinct patterns in the active set, no callout
\* announces the pattern of the callout before it
C7_NoRepeat ==
    (ev.op = "callout" /\ Cardinality(CurrentPatterns) >= 2
        /\ ev.prev # NullPattern) => ev.pat # ev.prev

\* C8: start with rounds < 1 or with an empty selected set is rejected: the
\* session stays in setup
C8_StartRejected ==
    (ev.op = "start" /\ (config.rounds < 1 \/ CurrentPatterns = {})) =>
        phase = "setup"

\* C9: from stop until the next start the session state is at the setup
\* defaults, no timer and no callout arm is pending, and no callout sounds
C9_StopClean ==
    phase = "setup" =>
        /\ currentRound = 1
        /\ timeRemaining = 0
        /\ currentPattern = NullPattern
        /\ ~isPaused
        /\ timerRef = -1
        /\ calloutRef = -1
        /\ untracked = << >>
        /\ ev.op # "callout"

\* C10: a callout happens only in round phase and only when not paused
C10_CalloutOnlyInRound ==
    ev.op = "callout" => (ev.phase = "round" /\ ~ev.paused)

\* C12: a resume in round phase with currentPattern set leaves one callout
\* armed, with a delay drawn anew from [baseDelay, baseDelay + delayVariance]
\* (not the rest of the delay that was pending); a resume in rest arms no
\* callout
C12_ResumeArms ==
    [][ ev'.op = "resume" =>
          /\ (phase = "round" /\ currentPattern # NullPattern) =>
                calloutRef' \in CalloutDelays
          /\ phase = "rest" => (calloutRef' = -1 /\ calloutRef = -1) ]_vars

C12_Witness ==
    /\ ev.op = "resume"
    /\ phase = "round"
    /\ currentPattern # NullPattern
    /\ config.delayVariance > 0
    /\ calloutRef = config.baseDelay + config.delayVariance
    /\ timeRemaining < RoundSeconds - 2

\* the step is an entry into round phase
EntersRound == phase # "round" /\ phase' = "round"

\* the step is a 2-second timeout firing
FirstCalloutFired == ev'.op = "callout" /\ Len(untracked') < Len(untracked)

C14_RestStartSignal ==
    (phase = "rest" /\ timeRemaining <= 3) =>
        startSignals >= Count(phaseLog, "rest")

\* C18: a speak the engine issues plays its units at the playback speed that
\* is set at that moment.
C18_SpeakAtSetSpeed ==
    (ev.op = "callout" /\ ev.spoke) => ev.rate = config.playbackSpeed

\* C26: from complete, a step either keeps phase, currentRound and
\* timeRemaining as they are, or is the stop that goes to setup.
C26_CompleteIsTerminal ==
    [][ phase = "complete" =>
          \/ /\ phase' = "complete"
             /\ currentRound' = currentRound
             /\ timeRemaining' = timeRemaining
          \/ ev'.op = "stop" /\ phase' = "setup" ]_vars

\* the session of two rounds completed and was then stopped
C26_Witness == ev.op = "stop" /\ ev.phase = "complete" /\ phase = "setup"
    /\ currentRound = 1 /\ timeRemaining = 0 /\ config.rounds = 2

\* C27: currentRound changes only by 1 on the step from rest to round, and
\* to 1 on start and stop; the step from rest to round always adds 1.
C27_RoundCounter ==
    [][ /\ (phase = "rest" /\ phase' = "round") => currentRound' = currentRound + 1
        /\ ev'.op \in { "start", "stop" } => currentRound' = 1
        /\ ( /\ ~(phase = "rest" /\ phase' = "round")
             /\ ev'.op \notin { "start", "stop" } ) =>
                 currentRound' = currentRound ]_vars

\* the second round was entered from rest; a tick, a callout and a change of
\* speed later it is still the second
C27_Witness == currentRound = 2 /\ phase = "round" /\ ev.op = "speed"
    /\ phaseLog = << "round", "rest", "round" >> /\ timeRemaining < RoundSeconds
    /\ currentPattern # NullPattern

\* the length a phase is seeded with (page.tsx 262, 298, 318)
PhaseSeconds(ph) == IF ph = "round" THEN RoundSeconds ELSE config.restSeconds

\* C28: a step that enters round or rest sets timeRemaining to the length of
\* that phase, and the tick that ends a round or a rest is the last of
\* exactly as many counting ticks as the phase is long.
C28_PhaseLength ==
    [][ /\ (phase' # phase /\ phase' \in { "round", "rest" }) =>
               timeRemaining' = PhaseSeconds(phase')
        /\ (phase' # phase /\ ev'.op = "tick") =>
               phaseTicks + 1 = PhaseSeconds(phase) ]_vars

\* the second round was entered at the last tick of a rest that was paused
\* on the way: the rest took its length in counting ticks
C28_Witness == phaseLog = << "round", "rest", "round" >> /\ ev.op = "tick"
    /\ ev.phase = "rest" /\ phase = "round" /\ timeRemaining = RoundSeconds
    /\ phaseTicks = 0 /\ interrupted

\* the session is in a round and not paused
Running == phase = "round" /\ ~isPaused

PendingArms == (IF calloutRef >= 0 THEN 1 ELSE 0) + Len(untracked)

\* C30: at most one callout timer is pending.
C30_OneArm == PendingArms <= 1

\* C37: with a configuration of one round or more, currentRound is between
\* 1 and rounds, timeRemaining is never negative, and it is 1 or more in
\* round and in rest.
C37_CountersInRange ==
    config.rounds >= 1 =>
        /\ 1 <= currentRound /\ currentRound <= config.rounds
        /\ timeRemaining >= 0
        /\ phase \in { "round", "rest" } => timeRemaining >= 1

\* the last second of the last round, after a pause and a change of speed
C37_Witness == phase = "round" /\ timeRemaining = 1 /\ interrupted
    /\ currentRound = config.rounds /\ config.rounds = MaxRounds
    /\ config.playbackSpeed # InitialPlaybackSpeed

\* C39: a change of playback speed leaves phase, currentRound,
\* timeRemaining, currentPattern and isPaused as they are, and the pending
\* tick and the pending callout arm keep their remaining delays.
C39_SpeedFrame ==
    [][ ev'.op = "speed" =>
          /\ UNCHANGED << phase, currentRound, timeRemaining, currentPattern,
                          isPaused >>
          /\ timerRef' = timerRef
          /\ calloutRef' = calloutRef ]_vars

C40_CalloutsApart ==
    [][ ~( /\ ev.op = "callout" /\ ev.phase = "round"
           /\ phase = "round" /\ phase' = "round"
           /\ ev'.op = "callout" ) ]_vars

\* the last step was a tick that found the session unpaused
CountingTick == ev.op = "tick" /\ ~ev.paused

C35_GeneratedSet ==
    generator.op = "return" =>
        /\ Len(generator.patterns) \in 3 .. 8
        /\ \A j, k \in DOMAIN generator.patterns :
              generator.patterns[j] = generator.patterns[k] => j = k
        /\ \A k \in DOMAIN generator.patterns :
              /\ Len(generator.patterns[k]) \in 1 .. 4
              /\ \A n \in DOMAIN generator.patterns[k] :
                    generator.patterns[k][n] \in 1 .. 4

C21_ImportName ==
    [][ setOp'.op = "import" =>
          LET old == patternSets
              added == patternSets'[Len(patternSets')]
              name == sharedSetPreview[1].name
          IN  /\ Len(patternSets') = Len(old) + 1
              /\ SubSeq(patternSets', 1, Len(old)) = old
              /\ added.name \notin Names(old)
              /\ name \notin Names(old) => added.name = name
              /\ name \in Names(old) =>
                    \E k \in 1 .. Len(old) + 1 :
                        /\ added.name = Suffixed(name, k)
                        /\ \A j \in 1 .. k - 1 : Suffixed(name, j) \in Names(old)
              /\ added.patterns = sharedSetPreview[1].patterns ]_vars

\* "Basic 1" was imported over "Basic 1" and "Basic 1 (1)"
C21_Witness == setOp.op = "import"
    /\ patternSets[Len(patternSets)].name = Suffixed("Basic 1", 2)
    /\ { "Basic 1", Suffixed("Basic 1", 1) } \subseteq Names(patternSets)

\* C24: removePatternFromSet leaves the set as it is when no other pattern
\* would remain, and else takes out the pattern and nothing else, the others
\* keeping their order; a set that holds a pattern still holds one after it,
\* and every other set is left as it is.
C24_RemovePattern ==
    [][ setOp'.op = "removePattern" =>
          /\ Len(patternSets') = Len(patternSets)
          /\ \A k \in DOMAIN patternSets :
                LET old == patternSets[k].patterns
                    rest == SelectSeq(old, LAMBDA q : q # setOp'.pattern)
                IN  IF patternSets[k].id # setOp'.id
                    THEN patternSets'[k] = patternSets[k]
                    ELSE /\ patternSets'[k] =
                               [ patternSets[k] EXCEPT
                                    !.patterns = IF rest = << >> THEN old ELSE rest ]
                         /\ old # << >> => patternSets'[k].patterns # << >> ]_vars

\* the only pattern of the edited set was to be removed and is still there
C24_Witness == setOp.op = "removePattern" /\ setOp.id = editingSet
    /\ \E k \in DOMAIN patternSets :
          /\ patternSets[k].id = setOp.id
          /\ patternSets[k].patterns = << setOp.pattern >>

\* a pattern was removed from a set that holds another one
C24_Removed == setOp.op = "removePattern"
    /\ \E k \in DOMAIN patternSets :
          /\ patternSets[k].id = setOp.id
          /\ patternSets[k].patterns = << <<2>> >>
          /\ setOp.pattern = <<1>>

\* C25: no set of the collection holds the same pattern twice.
C25_DistinctPatterns ==
    \A k \in DOMAIN patternSets :
        \A i, j \in DOMAIN patternSets[k].patterns :
            patternSets[k].patterns[i] = patternSets[k].patterns[j] => i = j

(***************************************************************************)
(* Properties of share links.                                              *)
(***************************************************************************)
\* C22: for a set with a name that is not empty and at least one pattern,
\* encodePatternSet gives a token, and decodePatternSet of that token gives a
\* set of the same name and the same patterns in the same order.
C22_RoundTrip ==
    ( /\ shareEv.op = "share"
      /\ shareEv.set.name # << >>
      /\ Len(shareEv.set.patterns) >= 1 ) =>
        /\ ~shareEv.threw
        /\ LET decoded == DecodePatternSet(shareUrl)
           IN  /\ decoded # << >>
               /\ decoded[1].name = JStr(shareEv.set.name)
               /\ decoded[1].patterns = JPatterns(shareEv.set.patterns)

\* a value is a list of patterns: an array of arrays of numbers
IsPatternList(val) ==
    /\ val.t = "arr"
    /\ \A k \in DOMAIN val.v :
          /\ val.v[k].t = "arr"
          /\ \A j \in DOMAIN val.v[k].v : val.v[k].v[j].t = "num"

\* C23: after the page was opened under a token, a set is previewed only if
\* the token decodes to content of the shape { name: a string that is not
\* empty, patterns: a list of patterns }.
C23_DecodeRejects ==
    (shareEv.op = "open" /\ sharedSetPreview # << >>) =>
        /\ sharedSetPreview[1].name.t = "str"
        /\ sharedSetPreview[1].name.v # << >>
        /\ IsPatternList(sharedSetPreview[1].patterns)

====
